---- MODULE Spec2Model ----
(***************************************************************************)
(* denoising_autoencoder.ipynb as a state machine: the four code cells,    *)
(* executed top to bottom, one action per statement group.  An exception   *)
(* in a statement ends the cell and the run (pc = "aborted").              *)
(*                                                                         *)
(* Numbers.  A float in the notebook is modelled as a fixed-point integer  *)
(* counting units of 1/One, so 0.0 is 0 and 1.0 is One.  An ndarray is a   *)
(* record [shape, data] whose data is the flat C-order buffer, a function  *)
(* on 0 .. size-1; Python's 0-based indices are kept.                      *)
(***************************************************************************)
EXTENDS Integers, Sequences, FiniteSets, TLC

\* ---------------------------------------------------------------- bounds
\* The corpus is scaled down: mnist.load_data() returns 60000 and 10000
\* samples; the model loads NTrain and NTest (NTest >= n, as the loops index
\* x_test[0 .. n-1]).
NTrain == 2
NTest == 10
\* Corpora 0 .. MaxCorpus are the datasets load_data may return.
MaxCorpus == 0
\* States 0 .. MaxSeed of numpy's global random generator at start.
MaxSeed == 1
\* Initial weight draws 0 .. MaxInit of the Keras initializers.
MaxInit == 0
\* A Gaussian sample is within -NoiseSpan.0 .. +NoiseSpan.0.
NoiseSpan == 3

\* ------------------------------------------------------ program constants
PixelMax == 255         \* x.astype('float32') / 255.
ImgRows == 28           \* np.reshape(x, (len(x), 28, 28, 1))
ImgCols == 28
ImgChannels == 1
n == 10                 \* n = 10
epochs == 10            \* epochs=10
batch_size == 128       \* batch_size=128

\* 1.0 in fixed point; a multiple of PixelMax and of 2, so that v / 255. and
\* 0.5 are exact.
One == 2 * PixelMax
\* noise_factor = 0.5
noise_factor == One \div 2

\* ------------------------------------------------------------- ndarrays
Min(a, b) == IF a < b THEN a ELSE b
Max(a, b) == IF a > b THEN a ELSE b

RECURSIVE Prod(_)
Prod(s) == IF s = <<>> THEN 1 ELSE Head(s) * Prod(Tail(s))

\* number of elements of an array of this shape
Size(shape) == Prod(shape)

\* C-order (row-major) offset of the index tuple idx in an array of this shape
RECURSIVE FlatFrom(_, _, _, _)
FlatFrom(shape, idx, j, acc) ==
    IF j > Len(shape) THEN acc
    ELSE FlatFrom(shape, idx, j + 1, acc * shape[j] + idx[j])
Flat(shape, idx) == FlatFrom(shape, idx, 1, 0)

\* a[idx]
At(a, idx) == a.data[Flat(a.shape, idx)]

\* len(a)
Len0(a) == Head(a.shape)

\* a name not bound yet
Unbound == [shape |-> <<>>, data |-> <<>>]

\* a.astype('float32')
AsFloat(v) == v * One

\* mutant: the divisor is the number of levels, 256
Div256(a) == [shape |-> a.shape,
              data  |-> [k \in DOMAIN a.data |-> a.data[k] \div (PixelMax + 1)]]

\* a / 255.  (elementwise, a new array)
Div255(a) == [shape |-> a.shape,
              data  |-> [k \in DOMAIN a.data |-> a.data[k] \div PixelMax]]

\* a.astype('float32') / 255.
Normalize(a) ==
    Div255([shape |-> a.shape,
            data  |-> [k \in DOMAIN a.data |-> AsFloat(a.data[k])]])

\* np.reshape(a, shape): a view of the same C-order buffer; ValueError when the
\* sizes differ
CanReshape(a, shape) == Size(shape) = Size(a.shape)
Reshape(a, shape) == [shape |-> shape, data |-> a.data]

\* f * a for a Python float f
Scale(f, a) == [shape |-> a.shape,
                data  |-> [k \in DOMAIN a.data |-> (f * a.data[k]) \div One]]

\* a + b for arrays of one shape (a new array)
Add(a, b) == [shape |-> a.shape,
              data  |-> [k \in DOMAIN a.data |-> a.data[k] + b.data[k]]]

\* mutant: only the lower limit is applied
ClipBelow(a, lo, hi) ==
    [shape |-> a.shape, data |-> [k \in DOMAIN a.data |-> Max(a.data[k], lo)]]

\* np.clip(a, lo, hi) (a new array)
Clip(a, lo, hi) ==
    [shape |-> a.shape,
     data  |-> [k \in DOMAIN a.data |-> Min(Max(a.data[k], lo), hi)]]

\* ------------------------------------------------------------ the inputs
\* The raw corpus: uint8 images, shape (N, 28, 28).  Every pixel value
\* 0 .. 255 occurs in every image (37 is odd), at a place that depends on the
\* corpus and on the sample.
RawValue(c, split, k) == (c * 101 + split * 59 + 37 * k) % (PixelMax + 1)
Raw(c, split, N) ==
    [shape |-> <<N, ImgRows, ImgCols>>,
     data  |-> [k \in 0 .. N * ImgRows * ImgCols - 1 |-> RawValue(c, split, k)]]

\* The d-th value numpy's generator returns from start state s: a sample of
\* N(0, 1), in fixed point, within -NoiseSpan.0 .. NoiseSpan.0.
NoiseRange == 2 * NoiseSpan * One + 1
Draw(s, d) == ((s * 211 + d * 997) % NoiseRange) - NoiseSpan * One

\* np.random.normal(loc=0.0, scale=1.0, size=shape) with the generator having
\* returned `drawn` values so far
Normal(s, drawn, shape) ==
    [shape |-> shape,
     data  |-> [k \in 0 .. Size(shape) - 1 |-> Draw(s, drawn + k)]]

\* -------------------------------------------------------------- the layers
\* A symbolic Keras tensor is [shape, layers]: its (height, width, channels)
\* and the layers that produced it, in order.
\* Input(shape=shape)
Input(shape) == [shape |-> shape, layers |-> <<>>]

CeilDiv(a, b) == (a + b - 1) \div b

\* output size of a window of size k moved by stride over s cells
Windowed(s, k, stride, padding) ==
    IF padding = "same" THEN CeilDiv(s, stride)
    ELSE CeilDiv(s - k + 1, stride)

\* Conv2D(filters, (k, k), activation=activation, padding=padding)(x)
Conv2D(filters, k, activation, padding, x) ==
    [shape  |-> <<Windowed(x.shape[1], k, 1, padding),
                  Windowed(x.shape[2], k, 1, padding), filters>>,
     layers |-> Append(x.layers, [kind |-> "Conv2D", filters |-> filters,
                                  size |-> k, activation |-> activation,
                                  padding |-> padding])]

\* MaxPooling2D((p, p), padding=padding)(x)
MaxPooling2D(p, padding, x) ==
    [shape  |-> <<Windowed(x.shape[1], p, p, padding),
                  Windowed(x.shape[2], p, p, padding), x.shape[3]>>,
     layers |-> Append(x.layers, [kind |-> "MaxPooling2D", filters |-> x.shape[3],
                                  size |-> p, activation |-> "none",
                                  padding |-> padding])]

\* mutant: the factor is applied to the height only
UpSamplingRows(f, x) ==
    [shape  |-> <<x.shape[1] * f, x.shape[2], x.shape[3]>>,
     layers |-> Append(x.layers, [kind |-> "UpSampling2D", filters |-> x.shape[3],
                                  size |-> f, activation |-> "none",
                                  padding |-> "none"])]

\* UpSampling2D((f, f))(x)
UpSampling2D(f, x) ==
    [shape  |-> <<x.shape[1] * f, x.shape[2] * f, x.shape[3]>>,
     layers |-> Append(x.layers, [kind |-> "UpSampling2D", filters |-> x.shape[3],
                                  size |-> f, activation |-> "none",
                                  padding |-> "none"])]

\* the input layer of the network
input_img == Input(<<ImgRows, ImgCols, ImgChannels>>)

\* the encoder
encoded ==
    LET x1 == Conv2D(32, 3, "relu", "same", input_img)
        x2 == MaxPooling2D(2, "same", x1)
        x3 == Conv2D(16, 3, "relu", "same", x2)
    IN  MaxPooling2D(2, "same", x3)

\* the decoder
decoded ==
    LET x1 == Conv2D(16, 3, "relu", "same", encoded)
        x2 == UpSampling2D(2, x1)
        x3 == Conv2D(32, 3, "relu", "same", x2)
        x4 == UpSampling2D(2, x3)
    IN  Conv2D(1, 3, "sigmoid", "same", x4)

\* Model(inputs, outputs), its weights drawn by the initializers (draw w) and
\* moved by `steps` gradient updates
Model(inputs, outputs, w) ==
    [input_shape  |-> inputs.shape,
     output_shape |-> outputs.shape,
     layers       |-> outputs.layers,
     weights      |-> [init |-> w, steps |-> 0],
     compiled     |-> FALSE]

NoModel == [input_shape |-> <<>>, output_shape |-> <<>>, layers |-> <<>>,
            weights |-> [init |-> 0, steps |-> 0], compiled |-> FALSE]

\* model.compile(optimizer='adam', loss='binary_crossentropy')
Compile(m) == [m EXCEPT !.compiled = TRUE]

\* The activation of the last layer bounds the outputs: a sigmoid's lie in
\* 0.0 .. 1.0.  The value itself is the network's arithmetic, which is
\* Keras's: any function of the weights and the input.
Forward(m, v, k) ==
    LET raw == v + 7 * m.weights.init + 3 * m.weights.steps + 13 * k
    IN  IF m.layers[Len(m.layers)].activation = "sigmoid"
        THEN raw % (One + 1)
        ELSE raw

\* model.predict(x): one output of output_shape per input sample
CanPredict(m, x) == Len(x.shape) = 4 /\ Tail(x.shape) = m.input_shape
Predict(m, x) ==
    LET shape == <<Len0(x)>> \o m.output_shape
    IN  [shape |-> shape,
         data  |-> [k \in 0 .. Size(shape) - 1 |->
                       Forward(m, x.data[k % Size(x.shape)], k)]]

\* gradient updates in one pass over N samples
StepsPerEpoch(N, batch) == CeilDiv(N, batch)

\* one epoch of fit: every batch updates the weights
TrainEpoch(m, N, batch) ==
    [m EXCEPT !.weights.steps = @ + StepsPerEpoch(N, batch)]

\* what the per-epoch report can show
LossValues == {"finite", "nan"}

\* mutant: training stops once the loss is not a number
StopOnNaN(e, c, r) == e = c.epochs \/ r[1] = "nan"

\* mutant: training stops early, after three epochs without improvement
StopAfterPatience(e, c, r) == e = c.epochs \/ e = 3

\* fit returns after epoch e with report r: no callback is passed, so only
\* when the epochs are used up
StopTraining(e, c, r) == e = c.epochs

\* mutant: only the architecture is written, the weights as initialized
SerializeUntrained(m) ==
    [layers |-> m.layers, weights |-> [m.weights EXCEPT !.steps = 0],
     written |-> TRUE]

\* the content model.save writes: the architecture and the weights
Serialize(m) == [layers |-> m.layers, weights |-> m.weights, written |-> TRUE]

\* ----------------------------------------------------------- the figures
\* One call of plt.subplot(nrows, ncols, index) followed by plt.imshow of
\* src[i].reshape(28, 28) and plt.title(title).
Axes(nrows, ncols, index, src, i, title) ==
    [nrows |-> nrows, ncols |-> ncols, index |-> index,
     src |-> src, sample |-> i, title |-> title]

\* the body of the first loop, for one i
NoisyPair(i) ==
    << Axes(2, n, i + 1, "x_test", i, "Original"),
       Axes(2, n, i + 1 + n, "x_test_noisy", i, "Noisy") >>

\* the body of the last loop, for one i
DenoisedPair(i) ==
    << Axes(3, n, i + 1, "x_test_noisy", i, "Noisy"),
       Axes(3, n, i + 1 + n, "decoded_imgs", i, "Denoised") >>

\* for i in range(n): body(i)
RECURSIVE NoisyLoop(_)
NoisyLoop(i) == IF i >= n THEN <<>> ELSE NoisyPair(i) \o NoisyLoop(i + 1)

RECURSIVE DenoisedLoop(_)
DenoisedLoop(i) == IF i >= n THEN <<>> ELSE DenoisedPair(i) \o DenoisedLoop(i + 1)

\* a[i].reshape(28, 28) for every i in range(n) raises nothing
CanShow(a) ==
    /\ a.shape # <<>>
    /\ n <= Len0(a)
    /\ Size(Tail(a.shape)) = ImgRows * ImgCols

\* plt.subplot raises nothing: every index is within the grid
InGrid(axes) ==
    \A j \in 1 .. Len(axes) : axes[j].index \in 1 .. axes[j].nrows * axes[j].ncols

VARIABLES
    pc,              \* the statement group to execute next
    error,           \* the stage that raised, "none" while running
    log,             \* the stages completed, in order
    corpus,          \* the dataset load_data returned
    seed,            \* numpy's generator state at start
    drawn,           \* values drawn from the generator so far
    x_train, x_test,
    x_train_noisy, x_test_noisy,
    figures,         \* the figures shown, each the sequence of its axes
    autoencoder,
    fit_call,        \* the arguments of autoencoder.fit
    epoch,           \* epochs completed
    reports,         \* the epochs a report was printed for, in order
    losses,          \* the last report: <<loss, val_loss>>
    model_file,      \* denoising_autoencoder.h5 as written by this run
    file_writes,     \* times the file was written
    decoded_imgs

vars == <<pc, error, log, corpus, seed, drawn, x_train, x_test,
          x_train_noisy, x_test_noisy, figures, autoencoder, fit_call,
          epoch, reports, losses, model_file, file_writes, decoded_imgs>>

data_vars == <<x_train, x_test, x_train_noisy, x_test_noisy>>
model_vars == <<autoencoder, fit_call, epoch, reports, losses>>
file_vars == <<model_file, file_writes>>

NoFile == [layers |-> <<>>, weights |-> [init |-> 0, steps |-> 0], written |-> FALSE]
NoCall == [x |-> Unbound, y |-> Unbound, val_x |-> Unbound, val_y |-> Unbound,
           epochs |-> 0, batch_size |-> 0, shuffle |-> FALSE]

Init ==
    /\ pc = "load"
    /\ error = "none"
    /\ log = <<>>
    /\ corpus = 0
    /\ seed \in 0 .. MaxSeed
    /\ drawn = 0
    /\ x_train = Unbound
    /\ x_test = Unbound
    /\ x_train_noisy = Unbound
    /\ x_test_noisy = Unbound
    /\ figures = <<>>
    /\ autoencoder = NoModel
    /\ fit_call = NoCall
    /\ epoch = 0
    /\ reports = <<>>
    /\ losses = <<"none", "none">>
    /\ model_file = NoFile
    /\ file_writes = 0
    /\ decoded_imgs = Unbound

\* the statement group `stage` completed and `next` follows
Goto(stage, next) ==
    /\ pc' = next
    /\ log' = Append(log, stage)
    /\ error' = error

\* mutant: the exception is caught and the statement is tried again
Swallow(stage) ==
    /\ pc' = pc
    /\ error' = stage
    /\ log' = log

\* the statement group `stage` raised: the cell and the run end
Raise(stage) ==
    /\ pc' = "aborted"
    /\ error' = stage
    /\ log' = log

\* ------------------------------------------------------- cell 4939b2e3
\* (x_train, _), (x_test, _) = mnist.load_data()
LoadData ==
    /\ pc = "load"
    /\ \E c \in 0 .. MaxCorpus :
          /\ corpus' = c
          /\ x_train' = Raw(c, 0, NTrain)
          /\ x_test' = Raw(c, 1, NTest)
    /\ Goto("load", "normalize")
    /\ UNCHANGED <<seed, drawn, x_train_noisy, x_test_noisy, figures,
                   model_vars, file_vars, decoded_imgs>>

\* mnist.load_data() raises: the corpus cannot be fetched
LoadFails ==
    /\ pc = "load"
    /\ Raise("load")
    /\ UNCHANGED <<corpus, seed, drawn, data_vars, figures, model_vars,
                   file_vars, decoded_imgs>>

\* x_train = x_train.astype('float32') / 255.  (and x_test)
NormalizeData ==
    /\ pc = "normalize"
    /\ x_train' = Normalize(x_train)
    /\ x_test' = Normalize(x_test)
    /\ Goto("normalize", "reshape")
    /\ UNCHANGED <<corpus, seed, drawn, x_train_noisy, x_test_noisy, figures,
                   model_vars, file_vars, decoded_imgs>>

\* the shape (len(a), 28, 28, 1)
Canonical(a) == <<Len0(a), ImgRows, ImgCols, ImgChannels>>

\* x_train = np.reshape(x_train, (len(x_train), 28, 28, 1))  (and x_test)
ReshapeData ==
    /\ pc = "reshape"
    /\ IF CanReshape(x_train, Canonical(x_train)) /\ CanReshape(x_test, Canonical(x_test))
       THEN /\ x_train' = Reshape(x_train, Canonical(x_train))
            /\ x_test' = Reshape(x_test, Canonical(x_test))
            /\ Goto("reshape", "noise")
       ELSE /\ Raise("reshape")
            /\ UNCHANGED <<x_train, x_test>>
    /\ UNCHANGED <<corpus, seed, drawn, x_train_noisy, x_test_noisy, figures,
                   model_vars, file_vars, decoded_imgs>>

\* a + noise_factor * np.random.normal(loc=0.0, scale=1.0, size=a.shape)
Noisy(a, s, d) == Add(a, Scale(noise_factor, Normal(s, d, a.shape)))

\* x_train_noisy = x_train + noise_factor * np.random.normal(...)  (and x_test)
AddNoise ==
    /\ pc = "noise"
    /\ x_train_noisy' = Noisy(x_train, seed, drawn)
    /\ x_test_noisy' = Noisy(x_test, seed, drawn + Size(x_train.shape))
    /\ drawn' = drawn + Size(x_train.shape) + Size(x_test.shape)
    /\ Goto("noise", "clip")
    /\ UNCHANGED <<corpus, seed, x_train, x_test, figures, model_vars,
                   file_vars, decoded_imgs>>

\* x_train_noisy = np.clip(x_train_noisy, 0., 1.)  (and x_test_noisy)
ClipNoise ==
    /\ pc = "clip"
    /\ x_train_noisy' = Clip(x_train_noisy, 0, One)
    /\ x_test_noisy' = Clip(x_test_noisy, 0, One)
    /\ Goto("clip", "show_noisy")
    /\ UNCHANGED <<corpus, seed, drawn, x_train, x_test, figures, model_vars,
                   file_vars, decoded_imgs>>

\* plt.figure(figsize=(20, 4)); for i in range(n): ...; plt.show()
ShowNoisy ==
    /\ pc = "show_noisy"
    /\ LET axes == NoisyLoop(0) IN
       IF CanShow(x_test) /\ CanShow(x_test_noisy) /\ InGrid(axes)
       THEN /\ figures' = Append(figures, axes)
            /\ Goto("show_noisy", "build")
       ELSE /\ Raise("show_noisy")
            /\ UNCHANGED figures
    /\ UNCHANGED <<corpus, seed, drawn, data_vars, model_vars, file_vars,
                   decoded_imgs>>

\* ------------------------------------------------------- cell 1a678a3e
\* autoencoder = Model(input_img, decoded); autoencoder.compile(...);
\* autoencoder.summary()
BuildModel ==
    /\ pc = "build"
    /\ \E w \in 0 .. MaxInit :
          autoencoder' = Compile(Model(input_img, decoded, w))
    /\ Goto("build", "fit")
    /\ UNCHANGED <<corpus, seed, drawn, data_vars, figures, fit_call, epoch,
                   reports, losses, file_vars, decoded_imgs>>

\* ------------------------------------------------------- cell 4d417812
\* mutant: the network is fitted to reproduce its noisy input
FitArgsNoisyTargets ==
    [x |-> x_train_noisy, y |-> x_train_noisy, val_x |-> x_test_noisy,
     val_y |-> x_test_noisy, epochs |-> epochs, batch_size |-> batch_size,
     shuffle |-> TRUE]

\* the arguments of autoencoder.fit(x_train_noisy, x_train, epochs=10,
\* batch_size=128, shuffle=True, validation_data=(x_test_noisy, x_test))
FitArgs ==
    [x |-> x_train_noisy, y |-> x_train, val_x |-> x_test_noisy,
     val_y |-> x_test, epochs |-> epochs, batch_size |-> batch_size,
     shuffle |-> TRUE]

\* fit accepts its data: inputs and targets pair up and fit the network
CanFit(m, c) ==
    /\ m.compiled
    /\ CanPredict(m, c.x) /\ CanPredict(m, c.val_x)
    /\ c.y.shape = <<Len0(c.x)>> \o m.output_shape
    /\ c.val_y.shape = <<Len0(c.val_x)>> \o m.output_shape

\* autoencoder.fit(...) is entered
FitBegin ==
    /\ pc = "fit"
    /\ IF CanFit(autoencoder, FitArgs)
       THEN /\ fit_call' = FitArgs
            /\ pc' = "epoch"
            /\ UNCHANGED <<error, log>>
       ELSE /\ Raise("fit")
            /\ UNCHANGED fit_call
    /\ UNCHANGED <<corpus, seed, drawn, data_vars, figures, autoencoder, epoch,
                   reports, losses, file_vars, decoded_imgs>>

\* one epoch of fit: a pass over the training set in batches, the validation
\* pass, the report; after the last epoch fit returns
FitEpoch ==
    /\ pc = "epoch"
    /\ epoch < fit_call.epochs
    /\ autoencoder' = TrainEpoch(autoencoder, Len0(fit_call.x), fit_call.batch_size)
    /\ epoch' = epoch + 1
    /\ reports' = Append(reports, epoch + 1)
    /\ \E l \in LossValues, v \in LossValues :
          /\ losses' = <<l, v>>
          /\ IF StopTraining(epoch + 1, fit_call, <<l, v>>)
             THEN Goto("fit", "save")
             ELSE UNCHANGED <<pc, error, log>>
    /\ UNCHANGED <<corpus, seed, drawn, data_vars, figures, fit_call,
                   file_vars, decoded_imgs>>

\* fit raises in the middle of training
FitFails ==
    /\ pc = "epoch"
    /\ Raise("fit")
    /\ UNCHANGED <<corpus, seed, drawn, data_vars, figures, model_vars,
                   file_vars, decoded_imgs>>

\* mutant: the save statement stands before the fit statement
SaveBeforeFit ==
    /\ pc = "fit"
    /\ model_file' = Serialize(autoencoder)
    /\ file_writes' = file_writes + 1
    /\ Goto("save", "fit")
    /\ UNCHANGED <<corpus, seed, drawn, data_vars, figures, model_vars,
                   decoded_imgs>>

\* autoencoder.save("denoising_autoencoder.h5")
SaveModel ==
    /\ pc = "save"
    /\ model_file' = Serialize(autoencoder)
    /\ file_writes' = file_writes + 1
    /\ Goto("save", "predict")
    /\ UNCHANGED <<corpus, seed, drawn, data_vars, figures, model_vars,
                   decoded_imgs>>

\* save raises: nothing is written
SaveFails ==
    /\ pc = "save"
    /\ Raise("save")
    /\ UNCHANGED <<corpus, seed, drawn, data_vars, figures, model_vars,
                   file_vars, decoded_imgs>>

\* ------------------------------------------------------- cell 757f9ca7
\* decoded_imgs = autoencoder.predict(x_test_noisy)
PredictTest ==
    /\ pc = "predict"
    /\ IF CanPredict(autoencoder, x_test_noisy)
       THEN /\ decoded_imgs' = Predict(autoencoder, x_test_noisy)
            /\ Goto("predict", "show_denoised")
       ELSE /\ Raise("predict")
            /\ UNCHANGED decoded_imgs
    /\ UNCHANGED <<corpus, seed, drawn, data_vars, figures, model_vars,
                   file_vars>>

\* plt.figure(figsize=(20, 6)); for i in range(n): ...; plt.show()
ShowDenoised ==
    /\ pc = "show_denoised"
    /\ LET axes == DenoisedLoop(0) IN
       IF CanShow(x_test_noisy) /\ CanShow(decoded_imgs) /\ InGrid(axes)
       THEN /\ figures' = Append(figures, axes)
            /\ Goto("show_denoised", "done")
       ELSE /\ Raise("show_denoised")
            /\ UNCHANGED figures
    /\ UNCHANGED <<corpus, seed, drawn, data_vars, model_vars, file_vars,
                   decoded_imgs>>

\* the kernel is interrupted while a cell runs
Running == pc \notin {"done", "aborted"}
Interrupt ==
    /\ Running
    /\ Raise("interrupt")
    /\ UNCHANGED <<corpus, seed, drawn, data_vars, figures, model_vars,
                   file_vars, decoded_imgs>>

Next ==
    \/ LoadData \/ LoadFails \/ NormalizeData \/ ReshapeData \/ AddNoise
    \/ ClipNoise \/ ShowNoisy \/ BuildModel \/ FitBegin \/ FitEpoch
    \/ FitFails \/ SaveModel \/ SaveFails \/ PredictTest \/ ShowDenoised
    \/ Interrupt

Spec == Init /\ [][Next]_vars

\* the run goes on while a statement is left to execute
FairSpec == Spec /\ WF_vars(Next)

\* --------------------------------------------------------------- claims
\* the statement group `stage` has completed
Done(stage) == \E j \in 1 .. Len(log) : log[j] = stage

Samples(a) == 0 .. Len0(a) - 1
Rows == 0 .. ImgRows - 1
Cols == 0 .. ImgCols - 1

\* clean[k] + 0.5 * (the sample added to element k), before clipping
Summed(clean, d, k) == clean.data[k] + (noise_factor * Draw(seed, d + k)) \div One

\* every element of noisy lies in [0,1] and is the sum where the sum does
Clipped(noisy, clean, d) ==
    /\ noisy.shape = clean.shape
    /\ DOMAIN noisy.data = DOMAIN clean.data
    /\ \A k \in DOMAIN noisy.data :
          /\ clean.data[k] \in 0 .. One
          /\ noisy.data[k] >= 0 /\ noisy.data[k] <= One
          /\ Summed(clean, d, k) \in 0 .. One => noisy.data[k] = Summed(clean, d, k)

\* C1: after noise injection every element of x_train_noisy and x_test_noisy
\* lies in [0,1], whatever the Gaussian sample, and equals clean + 0.5 * sample
\* where that sum is inside [0,1]: so it is when the clip completes, and no
\* later step changes either array.
C1_NoisyInRange ==
    /\ [](pc = "show_noisy" =>
            /\ Clipped(x_train_noisy, x_train, 0)
            /\ Clipped(x_test_noisy, x_test, Size(x_train.shape)))
    /\ [][Done("clip") => x_train_noisy' = x_train_noisy
                           /\ x_test_noisy' = x_test_noisy]_vars

\* the clip has acted on a sum below 0, on a sum above 1 and on a sum inside
C1_Witness ==
    /\ Done("clip")
    /\ \E k \in DOMAIN x_test_noisy.data :
          Summed(x_test, Size(x_train.shape), k) < 0 /\ x_test_noisy.data[k] = 0
    /\ \E k \in DOMAIN x_test_noisy.data :
          Summed(x_test, Size(x_train.shape), k) > One /\ x_test_noisy.data[k] = One
    /\ \E k \in DOMAIN x_train_noisy.data :
          /\ Summed(x_train, 0, k) > 0 /\ Summed(x_train, 0, k) < One
          /\ x_train_noisy.data[k] # x_train.data[k]

\* v / 255 for every raw pixel value v, as the notebook computes it
Ramp ==
    Normalize([shape |-> <<PixelMax + 1>>, data |-> [v \in 0 .. PixelMax |-> v]]).data

\* a holds, sample by sample and pixel by pixel, raw / 255 in the layout
\* (N, 28, 28, 1)
Preprocessed(a, raw, N) ==
    /\ a.shape = <<N, ImgRows, ImgCols, ImgChannels>>
    /\ raw.shape = <<N, ImgRows, ImgCols>>
    /\ DOMAIN a.data = 0 .. N * ImgRows * ImgCols * ImgChannels - 1
    /\ \A i \in 0 .. N - 1, r \in Rows, c \in Cols :
          /\ At(a, <<i, r, c, 0>>) * PixelMax = At(raw, <<i, r, c>>) * One
          /\ At(a, <<i, r, c, 0>>) \in 0 .. One

\* C2: after preprocessing every stored value is v/255 for the raw pixel v at
\* the same sample, row and column, lies in [0,1] (0 -> 0, 255 -> 1, order
\* kept), and x_train and x_test have shape (N,28,28,1) with N the number of
\* samples loaded: so it is when the reshape completes, and no later step
\* changes either array.
C2_Preprocessed ==
    /\ [](pc = "noise" =>
            /\ Preprocessed(x_train, Raw(corpus, 0, NTrain), NTrain)
            /\ Preprocessed(x_test, Raw(corpus, 1, NTest), NTest)
            /\ Ramp[0] = 0 /\ Ramp[PixelMax] = One
            /\ \A v \in 0 .. PixelMax - 1 : Ramp[v] < Ramp[v + 1]
            /\ \A v \in 0 .. PixelMax : Ramp[v] * PixelMax = v * One)
    /\ [][Done("reshape") => x_train' = x_train /\ x_test' = x_test]_vars

\* preprocessing has run on at least two samples, and both ends of the pixel
\* range occur in the data
C2_Witness ==
    /\ Done("reshape")
    /\ Len0(x_train) >= 2
    /\ \E k \in DOMAIN x_train.data : x_train.data[k] = 0
    /\ \E k \in DOMAIN x_train.data : x_train.data[k] = One
    /\ At(x_train, <<0, 0, 0, 0>>) # At(x_train, <<1, 0, 0, 0>>)

\* the nine layers, in order: kind, filters (window for a pool or upsample),
\* padding
NineLayers ==
    << <<"Conv2D", 32, "same">>, <<"MaxPooling2D", 2, "same">>,
       <<"Conv2D", 16, "same">>, <<"MaxPooling2D", 2, "same">>,
       <<"Conv2D", 16, "same">>, <<"UpSampling2D", 2, "none">>,
       <<"Conv2D", 32, "same">>, <<"UpSampling2D", 2, "none">>,
       <<"Conv2D", 1, "same">> >>

LayerKey(l) ==
    <<l.kind, IF l.kind = "Conv2D" THEN l.filters ELSE l.size, l.padding>>

\* C3: the model's output shape equals its input shape (28,28,1): the shape
\* (28,28,1) propagated through the nine layers in order ends at height 28,
\* width 28 and 1 channel, and predict returns one such image per input image.
C3_OutputShapeIsInputShape ==
    /\ Done("build") =>
          /\ autoencoder.input_shape = <<28, 28, 1>>
          /\ autoencoder.output_shape = autoencoder.input_shape
          /\ [j \in 1 .. Len(autoencoder.layers) |-> LayerKey(autoencoder.layers[j])]
                = NineLayers
    /\ Done("predict") =>
          /\ decoded_imgs.shape = x_test_noisy.shape
          /\ decoded_imgs.shape = <<NTest, 28, 28, 1>>

\* the model was built and has predicted a batch
C3_Witness ==
    /\ Done("predict")
    /\ Len(autoencoder.layers) = 9
    /\ decoded_imgs.shape = <<NTest>> \o autoencoder.output_shape

\* the statement groups of the notebook, in order
Stages ==
    <<"load", "normalize", "reshape", "noise", "clip", "show_noisy", "build",
      "fit", "save", "predict", "show_denoised">>

\* C4: data flows strictly forward: the stages complete in the notebook's
\* order, none twice; the first figure and the training come after the noise
\* injection, the file after the training, the prediction after the file, the
\* last figure after the prediction.
C4_StrictlyForward ==
    /\ Len(log) <= Len(Stages)
    /\ \A j \in 1 .. Len(log) : log[j] = Stages[j]
    /\ x_train # Unbound => pc # "load"
    /\ x_train_noisy # Unbound => Done("reshape")
    /\ figures # <<>> => Done("clip")
    /\ autoencoder # NoModel => Done("clip")
    /\ (pc = "epoch" \/ epoch > 0) => Done("clip") /\ Done("build")
    /\ model_file.written => Done("fit")
    /\ decoded_imgs # Unbound => Done("save")
    /\ Len(figures) > 1 => Done("predict")
    /\ Len(figures) <= 2 /\ file_writes <= 1

\* a run went through every stage
C4_Witness == pc = "done" /\ log = Stages /\ Len(figures) = 2

\* C5: the model file is written only after all 10 epochs have completed, and
\* once per run: while fewer than 10 epochs have completed, also in a run
\* interrupted or failed in mid-training, this run has written no file.
C5_FileOnlyAfterTraining ==
    /\ epoch < 10 => ~model_file.written /\ file_writes = 0
    /\ file_writes <= 1
    /\ model_file.written <=> file_writes = 1
    /\ Done("save") <=> file_writes = 1
    /\ pc = "done" => file_writes = 1

\* the file has been written, after the tenth epoch
C5_Witness == model_file.written /\ file_writes = 1 /\ epoch = 10 /\ pc = "predict"

\* the weights after `e` full epochs over the training set
WeightsAfter(e) ==
    [init |-> autoencoder.weights.init,
     steps |-> e * StepsPerEpoch(NTrain, 128)]

\* C6: model parameters are mutated only by the trainer: construction sets
\* them, a training epoch changes them, and save, predict and both figures
\* leave them unchanged, so the file and the final predict both get the
\* parameters as they are at the end of epoch 10.
C6_OnlyTrainerMutates ==
    /\ [][/\ autoencoder' # autoencoder => pc \in {"build", "epoch"}
          /\ model_file' # model_file =>
                /\ autoencoder' = autoencoder
                /\ epoch = 10
                /\ model_file'.weights = WeightsAfter(10)
                /\ model_file'.weights = autoencoder.weights
          /\ decoded_imgs' # decoded_imgs =>
                /\ autoencoder' = autoencoder
                /\ autoencoder.weights = WeightsAfter(10)
                /\ model_file.weights = autoencoder.weights
          /\ figures' # figures => autoencoder' = autoencoder]_vars
    /\ [](pc = "epoch" => autoencoder.weights = WeightsAfter(epoch))

\* trained, saved and used: the weights moved in training and are the file's
C6_Witness ==
    /\ pc = "done"
    /\ autoencoder.weights.steps > 0
    /\ model_file.weights = autoencoder.weights
    /\ decoded_imgs # Unbound

\* C7: training ends after exactly 10 epochs with batch size 128, whatever
\* the losses: when fit returns, 10 passes over the training set were made
\* and 10 reports printed, one per epoch; and fit, once entered, does not go
\* on for ever: it returns, or it raises.
C7_TenEpochs ==
    /\ [](pc = "epoch" =>
            /\ fit_call.epochs = 10 /\ fit_call.batch_size = 128
            /\ epoch < 10
            /\ reports = [j \in 1 .. epoch |-> j])
    /\ [](Done("fit") =>
            /\ epoch = 10
            /\ reports = [j \in 1 .. 10 |-> j]
            /\ losses[1] \in LossValues /\ losses[2] \in LossValues
            /\ autoencoder.weights.steps = 10 * CeilDiv(Len0(x_train_noisy), 128))
    /\ (pc = "epoch") ~> (Done("fit") \/ error # "none")

\* fit returned after a last epoch whose loss was not a number
C7_Witness ==
    /\ Done("fit")
    /\ Len(reports) = 10
    /\ losses = <<"nan", "nan">>

\* C8: an error at any stage aborts the whole run: after a stage raised no
\* step is taken; a failed load leaves no data and no model, a failed fit
\* leaves no file, no prediction and no last figure.
C8_ErrorAborts ==
    /\ [](pc = "aborted" <=> error # "none")
    /\ [][error = "none"]_vars
    /\ [](error = "load" =>
            /\ x_train = Unbound /\ autoencoder = NoModel /\ epoch = 0
            /\ figures = <<>> /\ ~model_file.written)
    /\ [](error = "fit" =>
            /\ ~model_file.written /\ file_writes = 0
            /\ decoded_imgs = Unbound /\ Len(figures) <= 1)
    /\ [](error = "save" =>
            /\ ~model_file.written /\ decoded_imgs = Unbound /\ Len(figures) <= 1)

\* fit raised in mid-training
C8_Witness == pc = "aborted" /\ error = "fit" /\ epoch \in 1 .. 9

\* noisy sample i is the clean sample i plus noise, clipped, pixel by pixel
SameIndex(noisy, clean, d) ==
    \A i \in Samples(clean), r \in Rows, c \in Cols :
        LET k == Flat(clean.shape, <<i, r, c, 0>>)
        IN  At(noisy, <<i, r, c, 0>>)
               = Min(Max(At(clean, <<i, r, c, 0>>)
                         + (noise_factor * Draw(seed, d + k)) \div One, 0), One)

\* C9: noise injection works on a copy: creating x_train_noisy and
\* x_test_noisy leaves x_train and x_test unchanged, the noisy sample i is
\* derived from the clean sample i, and the targets of training and validation
\* are the clean preprocessed images.
C9_NoiseOnCopy ==
    /\ [][(pc \in {"noise", "clip"}) => x_train' = x_train /\ x_test' = x_test]_vars
    /\ [](pc = "show_noisy" =>
            /\ x_train_noisy.shape = x_train.shape
            /\ x_test_noisy.shape = x_test.shape
            /\ SameIndex(x_train_noisy, x_train, 0)
            /\ SameIndex(x_test_noisy, x_test, Size(x_train.shape)))
    /\ [](pc = "epoch" =>
            /\ fit_call.x = x_train_noisy /\ fit_call.y = x_train
            /\ fit_call.val_x = x_test_noisy /\ fit_call.val_y = x_test
            /\ \A k \in DOMAIN fit_call.y.data :
                  fit_call.y.data[k] * PixelMax = RawValue(corpus, 0, k) * One
            /\ \A k \in DOMAIN fit_call.val_y.data :
                  fit_call.val_y.data[k] * PixelMax = RawValue(corpus, 1, k) * One)

\* training runs on noisy inputs that differ from its clean targets
C9_Witness ==
    /\ pc = "epoch"
    /\ epoch > 0
    /\ fit_call.y = x_train
    /\ fit_call.x # fit_call.y
    /\ fit_call.val_x # fit_call.val_y

\* the row (1-based) of a subplot index in a grid of ncols columns
RowOf(a) == ((a.index - 1) \div a.ncols) + 1
ColOf(a) == ((a.index - 1) % a.ncols) + 1

\* the grid declared for the f-th figure
DeclaredRows(f) == IF f = 1 THEN 2 ELSE 3

\* C10: each figure shows the first 10 pairs: pair i comes from sample index i
\* and stands in column i; every position used is within the declared grid
\* (2x10, then 3x10), none is used twice, and every row of the declared grid
\* receives 10 images.
C10_GridFilled ==
    \A f \in 1 .. Len(figures) :
        LET axes == figures[f] IN
        /\ \A j \in 1 .. Len(axes) :
              /\ axes[j].nrows = DeclaredRows(f) /\ axes[j].ncols = 10
              /\ axes[j].index \in 1 .. axes[j].nrows * axes[j].ncols
              /\ axes[j].sample \in 0 .. 9
              /\ ColOf(axes[j]) = axes[j].sample + 1
        /\ \A j, k \in 1 .. Len(axes) : j # k => axes[j].index # axes[k].index
        /\ \A row \in 1 .. DeclaredRows(f) :
              Cardinality({j \in 1 .. Len(axes) : RowOf(axes[j]) = row}) = 10
====
